---- MODULE Spec2Model ----
(***************************************************************************)
(* PC hardware monitor (src/hardware-collect.py): the sensor probes with   *)
(* their method fallback, the sample collector with clamping, the serial   *)
(* line encoder/sender, and the monitoring loop with its error budget.     *)
(*                                                                         *)
(* Readings that the code receives as floats (psutil percentages, WMI      *)
(* sensor values, nvidia-smi output) are carried in tenths ("deci"), so    *)
(* that int(...) is a real truncation.  Strings that the code searches     *)
(* (sensor and group names) are tuples of characters.                      *)
(***************************************************************************)
EXTENDS Integers, Sequences, FiniteSets, TLC

VARIABLES
    pc,                  \* position of the single thread of control
    running,             \* self.running
    serial_connection,   \* self.serial_connection: NoConn, or a handle "open" / "closed"
    cpu_temp, gpu_temp, cpu_usage, ram_usage, gpu_usage, fps,   \* self.<field>
    stats,               \* the dict returned by the last get_system_stats, or None
    consecutive_errors,  \* local of start_monitoring
    arg,                 \* input of the operation under way (environment outcome)
    res,                 \* what the last probe / send call returned
    wire,                \* characters handed to serial write by the last send
    openCalls, closeCalls,   \* calls made on the serial device so far
    failRun,             \* history: length of the trailing run of failed sends
    resetFrom,           \* history: largest counter value a successful send reset
    stopPath,            \* history: why the loop left Running
    signalled,           \* history: an operator interrupt arrived while Running
    interrupts,          \* number of operator interrupts delivered so far
    stopRequests,        \* number of outside stop_monitoring() calls so far
    unsent               \* history: Samples collected and not yet handed to a send

vars == << pc, running, serial_connection, cpu_temp, gpu_temp, cpu_usage,
           ram_usage, gpu_usage, fps, stats, consecutive_errors, arg, res, wire,
           openCalls, closeCalls, failRun, resetFrom,
           stopPath, signalled, interrupts, stopRequests, unsent >>

----------------------------------------------------------------------------
(* Bounds of the model *)
MaxSensors == 2        \* sensors returned by one WMI namespace enumeration
MaxGroups == 2         \* groups in the psutil sensor table
MaxEntries == 1        \* entries in one group of the sensor table
MaxInterrupts == 2     \* operator interrupts in one run
MaxStopRequests == 1   \* outside stop_monitoring() calls in one run

\* An optional value is a tuple: None is the empty one, Some(x) holds x
None == <<>>
Some(x) == <<x>>
NoConn == "None"

----------------------------------------------------------------------------
(* Python primitives *)

\* int(n / d) for d > 0: truncation toward zero
PyTrunc(n, d) == IF n >= 0 THEN n \div d ELSE -((-n) \div d)

\* int(x) of a float carried in tenths
PyInt(deci) == PyTrunc(deci, 10)

\* truthiness of a number-or-None
Truthy(x) == x # None /\ x[1] # 0

\* sub in s, for tuples of characters
Contains(sub, s) ==
    \E i \in 1..(Len(s) - Len(sub) + 1) : SubSeq(s, i, i + Len(sub) - 1) = sub

UpperChars == <<"A","B","C","D","E","F","G","H","I","J","K","L","M",
                "N","O","P","Q","R","S","T","U","V","W","X","Y","Z">>
LowerChars == <<"a","b","c","d","e","f","g","h","i","j","k","l","m",
                "n","o","p","q","r","s","t","u","v","w","x","y","z">>

LowerChar(c) ==
    IF \E i \in 1..26 : UpperChars[i] = c
    THEN LowerChars[CHOOSE i \in 1..26 : UpperChars[i] = c]
    ELSE c

\* s.lower()
Lower(s) == [i \in 1..Len(s) |-> LowerChar(s[i])]

PyMax(a, b) == IF a >= b THEN a ELSE b
PyMin(a, b) == IF a <= b THEN a ELSE b

RECURSIVE MaxOf(_)
MaxOf(s) == IF Len(s) = 1 THEN s[1] ELSE PyMax(s[1], MaxOf(Tail(s)))

\* index of the first TRUE of a sequence of flags, 0 when there is none
FirstIndex(flags) ==
    IF \E i \in 1..Len(flags) : flags[i]
    THEN CHOOSE i \in 1..Len(flags) : flags[i] /\ \A j \in 1..(i - 1) : ~flags[j]
    ELSE 0

----------------------------------------------------------------------------
(* What a probe hands back: a returned integer, or a KeyboardInterrupt that   *)
(* unwinds through it.  swallowed: how many interrupts arrived in the probe    *)
(* and were discarded by a bare except.                                        *)
Ret(v, sw) == [kind |-> "ret", val |-> v, swallowed |-> sw]
KbInt(sw) == [kind |-> "kbint", val |-> 0, swallowed |-> sw]

\* one attempt of a method: a value, or nothing (advance to the next method)
Got(v) == [ok |-> TRUE, val |-> v, swallowed |-> 0]
Nothing(sw) == [ok |-> FALSE, val |-> 0, swallowed |-> sw]

(* Keywords *)
kw_cpu == <<"c","p","u">>
kw_core == <<"c","o","r","e">>
kw_processor == <<"p","r","o","c","e","s","s","o","r">>
kw_CPU == <<"C","P","U">>
kw_GPU == <<"G","P","U">>
kw_fps == <<"f","p","s">>
kw_framerate == <<"f","r","a","m","e","r","a","t","e">>

\* the "if" of the sensor loops: lines 88 and 99, 146 and 157, 187 and 198, 215 and 225
IsCpuTemperature(s) == s.SensorType = "Temperature" /\ Contains(kw_CPU, s.Name)
IsGpuTemperature(s) == s.SensorType = "Temperature" /\ Contains(kw_GPU, s.Name)
IsGpuLoad(s) == s.SensorType = "Load" /\ Contains(kw_GPU, s.Name)
IsFps(s) == Contains(kw_fps, Lower(s.Name)) \/ Contains(kw_framerate, Lower(s.Name))

\* the filter that the probe of metric m applies to a sensor
SensorFilter(m, s) ==
    IF m = "cpu_temp" THEN IsCpuTemperature(s)
    ELSE IF m = "gpu_temp" THEN IsGpuTemperature(s)
    ELSE IF m = "gpu_usage" THEN IsGpuLoad(s)
    ELSE IsFps(s)

(* A WMI namespace query (import wmi; wmi.WMI(namespace=...); w.Sensor()) inside *)
(* try/except-all: q.k is "raise" (module or namespace missing, COM error),       *)
(* "interrupt" (KeyboardInterrupt during the call) or "list" with q.sensors.      *)
(* The first sensor that passes the filter decides: int(sensor.Value), and a      *)
(* Value of None makes int() raise, which the except-all discards.                *)
WmiFirst(q, m) ==
    IF q.k = "interrupt" THEN Nothing(1)
    ELSE IF q.k = "raise" THEN Nothing(0)
    ELSE LET i == FirstIndex([j \in 1..Len(q.sensors) |-> SensorFilter(m, q.sensors[j])])
         IN  IF i = 0 THEN Nothing(0)
             ELSE IF q.sensors[i].Value = None THEN Nothing(0)
             ELSE Got(PyInt(q.sensors[i].Value[1]))

(* nvidia-smi through subprocess.run inside try/except-all: q.k is "raise"       *)
(* (utility missing, timeout), "interrupt" or "done" with q.returncode and        *)
(* q.stdout, the kind of the stripped output: "", "[Not Supported]", "N/A" (not   *)
(* a number: float() raises) or "number", whose value q.number is in tenths.      *)
NvidiaSmi(q) ==
    IF q.k = "interrupt" THEN Nothing(1)
    ELSE IF q.k = "raise" THEN Nothing(0)
    ELSE IF q.returncode # 0 THEN Nothing(0)
    ELSE IF q.stdout = "" \/ q.stdout = "[Not Supported]" THEN Nothing(0)
    ELSE IF q.stdout # "number" THEN Nothing(0)
    ELSE Got(PyInt(q.number))

----------------------------------------------------------------------------
(* get_cpu_temperature *)

GroupNameMatches(name) ==
    \/ Contains(kw_cpu, Lower(name))
    \/ Contains(kw_core, Lower(name))
    \/ Contains(kw_processor, Lower(name))

\* int(entry.current) of the entries whose current is truthy
TruthyCurrents(entries) ==
    LET kept == SelectSeq(entries, Truthy)
    IN  [i \in 1..Len(kept) |-> PyInt(kept[i][1])]

(* Method 1, psutil.sensors_temperatures(), under the function's outer         *)
(* "except Exception" only.  t.k is "absent" (psutil has no such attribute),    *)
(* "raise", "interrupt" or "table" with t.groups in dict order.  The first      *)
(* group whose name matches and whose entries are non-empty decides; max() of   *)
(* no truthy reading raises ValueError.                                         *)
SensorsTemperatures(t) ==
    IF t.k = "absent" THEN [k |-> "advance", val |-> 0]
    ELSE IF t.k = "interrupt" THEN [k |-> "kbint", val |-> 0]
    ELSE IF t.k = "raise" THEN [k |-> "exc", val |-> 0]
    ELSE LET i == FirstIndex([j \in 1..Len(t.groups) |->
                                 GroupNameMatches(t.groups[j].name)
                                 /\ t.groups[j].entries # <<>>])
         IN  IF i = 0 THEN [k |-> "advance", val |-> 0]
             ELSE LET cur == TruthyCurrents(t.groups[i].entries)
                  IN  IF cur = <<>> THEN [k |-> "exc", val |-> 0]
                      ELSE [k |-> "value", val |-> MaxOf(cur)]

(* Method 4, MSAcpi_ThermalZoneTemperature inside try/except-all: z.k is       *)
(* "raise", "interrupt" or "list" with z.zones, the CurrentTemperature of each  *)
(* zone in tenths of a kelvin: int(raw / 10.0 - 273.15) of the first.           *)
ThermalZone(z) ==
    IF z.k = "interrupt" THEN Nothing(1)
    ELSE IF z.k = "raise" THEN Nothing(0)
    ELSE IF z.zones = <<>> THEN Nothing(0)
    ELSE Got(PyTrunc(z.zones[1] * 10 - 27315, 100))

\* int(35 + cpu_load * 0.4), cpu_load in tenths of a percent
SimulatedTemp(load) == PyTrunc(3500 + 4 * load, 100)

(* e.table, e.ohm, e.lhm, e.zone: the outcome of each method; e.load: the       *)
(* outcome of psutil.cpu_percent for the fallback ("value" with percent in      *)
(* tenths, "raise" or "interrupt").                                             *)
get_cpu_temperature(e) ==
    LET m1 == SensorsTemperatures(e.table)
        m2 == WmiFirst(e.ohm, "cpu_temp")
        m3 == WmiFirst(e.lhm, "cpu_temp")
        m4 == ThermalZone(e.zone)
    IN  IF m1.k = "kbint" THEN KbInt(0)
        ELSE IF m1.k = "exc" THEN Ret(45, 0)
        ELSE IF m1.k = "value" THEN Ret(m1.val, 0)
        ELSE IF m2.ok THEN Ret(m2.val, 0)
        ELSE IF m3.ok THEN Ret(m3.val, m2.swallowed)
        ELSE IF m4.ok THEN Ret(m4.val, m2.swallowed + m3.swallowed)
        ELSE LET sw == m2.swallowed + m3.swallowed + m4.swallowed
             IN  IF e.load.k = "interrupt" THEN KbInt(sw)
                 ELSE IF e.load.k = "raise" THEN Ret(45, sw)
                 ELSE Ret(SimulatedTemp(e.load.percent), sw)

----------------------------------------------------------------------------
(* get_gpu_temperature, get_gpu_usage: each method in its own try/except-all *)

\* e.smi, e.ohm, e.lhm: the outcome of each method
get_gpu_temperature(e) ==
    LET m1 == NvidiaSmi(e.smi)
        m2 == WmiFirst(e.ohm, "gpu_temp")
        m3 == WmiFirst(e.lhm, "gpu_temp")
    IN  IF m1.ok THEN Ret(m1.val, 0)
        ELSE IF m2.ok THEN Ret(m2.val, m1.swallowed)
        ELSE IF m3.ok THEN Ret(m3.val, m1.swallowed + m2.swallowed)
        ELSE Ret(55, m1.swallowed + m2.swallowed + m3.swallowed)

get_gpu_usage(e) ==
    LET m1 == NvidiaSmi(e.smi)
        m2 == WmiFirst(e.ohm, "gpu_usage")
        m3 == WmiFirst(e.lhm, "gpu_usage")
    IN  IF m1.ok THEN Ret(m1.val, 0)
        ELSE IF m2.ok THEN Ret(m2.val, m1.swallowed)
        ELSE IF m3.ok THEN Ret(m3.val, m1.swallowed + m2.swallowed)
        ELSE Ret(35, m1.swallowed + m2.swallowed + m3.swallowed)

----------------------------------------------------------------------------
(* get_fps *)

\* a variant with inclusive thresholds (>= for >)
EstimateFps_Inclusive(u) ==
    IF u >= 90 THEN 45 + (u - 90) * 2
    ELSE IF u >= 70 THEN 80 + (u - 70) * 2
    ELSE IF u >= 50 THEN 100 + (u - 50) * 2
    ELSE 144

\* a variant whose middle band measures from the wrong threshold
EstimateFps_MidBandOffset(u) ==
    IF u > 90 THEN 45 + (u - 90) * 2
    ELSE IF u > 70 THEN 80 + (u - 50) * 2
    ELSE IF u > 50 THEN 100 + (u - 50) * 2
    ELSE 144

\* the estimate from GPU usage
EstimateFps(u) ==
    IF u > 90 THEN 45 + (u - 90) * 2
    ELSE IF u > 70 THEN 80 + (u - 70) * 2
    ELSE IF u > 50 THEN 100 + (u - 50) * 2
    ELSE 144

(* e.ohm, e.lhm: the two frame-rate sensor queries; e.gpu: the environment of   *)
(* the get_gpu_usage call that the estimate makes.  That call cannot raise, so  *)
(* the function's outer "except Exception: return 60" has nothing to catch.     *)
get_fps(e) ==
    LET m1 == WmiFirst(e.ohm, "fps")
        m2 == WmiFirst(e.lhm, "fps")
        u  == get_gpu_usage(e.gpu)
    IN  IF m1.ok THEN Ret(m1.val, 0)
        ELSE IF m2.ok THEN Ret(m2.val, m1.swallowed)
        ELSE Ret(EstimateFps(u.val), m1.swallowed + m2.swallowed + u.swallowed)

----------------------------------------------------------------------------
(* send_data_to_arduino *)

Sample(ct, gt, cu, ru, gu, f) ==
    [cpu_temp |-> ct, gpu_temp |-> gt, cpu_usage |-> cu,
     ram_usage |-> ru, gpu_usage |-> gu, fps |-> f]

DigitChars == <<"0","1","2","3","4","5","6","7","8","9">>
Comma == ","
Newline == "\n"

RECURSIVE NatStr(_)
NatStr(n) ==
    IF n < 10 THEN <<DigitChars[n + 1]>>
    ELSE NatStr(n \div 10) \o <<DigitChars[(n % 10) + 1]>>

\* how an f-string renders an int
PyStr(n) == IF n < 0 THEN <<"-">> \o NatStr(-n) ELSE NatStr(n)

\* a variant that writes RAM usage and GPU usage in each other's place
FormatLine_Swapped(data) ==
    PyStr(data.cpu_temp) \o <<Comma>> \o PyStr(data.gpu_temp) \o <<Comma>>
    \o PyStr(data.cpu_usage) \o <<Comma>> \o PyStr(data.gpu_usage) \o <<Comma>>
    \o PyStr(data.ram_usage) \o <<Comma>> \o PyStr(data.fps) \o <<Newline>>

\* data_string
FormatLine(data) ==
    PyStr(data.cpu_temp) \o <<Comma>> \o PyStr(data.gpu_temp) \o <<Comma>>
    \o PyStr(data.cpu_usage) \o <<Comma>> \o PyStr(data.ram_usage) \o <<Comma>>
    \o PyStr(data.gpu_usage) \o <<Comma>> \o PyStr(data.fps) \o <<Newline>>

Sent(kind, val, line, w, f) ==
    [kind |-> kind, val |-> val, line |-> line, writes |-> w, flushes |-> f]

\* a variant that reports success as soon as the write went through
send_data_to_arduino_NoFlushCheck(conn, data, out) ==
    IF conn = NoConn THEN Sent("ret", FALSE, <<>>, 0, 0)
    ELSE LET line == FormatLine(data)
             w == IF conn = "closed" THEN "raise" ELSE out.write
         IN  IF w = "interrupt" THEN Sent("kbint", FALSE, line, 1, 0)
             ELSE IF w = "raise" THEN Sent("ret", FALSE, line, 1, 0)
             ELSE Sent("ret", TRUE, line, 1, 1)

(* conn: self.serial_connection; out.write, out.flush: how the device answers   *)
(* ("ok", "raise", "interrupt").  A handle that was closed refuses the write.   *)
(* The result carries the line handed to write and the number of write and      *)
(* flush calls made.                                                            *)
send_data_to_arduino(conn, data, out) ==
    IF conn = NoConn THEN Sent("ret", FALSE, <<>>, 0, 0)
    ELSE LET line == FormatLine(data)
             w == IF conn = "closed" THEN "raise" ELSE out.write
         IN  IF w = "interrupt" THEN Sent("kbint", FALSE, line, 1, 0)
             ELSE IF w = "raise" THEN Sent("ret", FALSE, line, 1, 0)
             ELSE IF out.flush = "interrupt" THEN Sent("kbint", FALSE, line, 1, 1)
             ELSE IF out.flush = "raise" THEN Sent("ret", FALSE, line, 1, 1)
             ELSE Sent("ret", TRUE, line, 1, 1)

----------------------------------------------------------------------------
(* get_system_stats: the clamp and the two Samples it can return *)

\* a variant without the lower limit
Clamp_NoFloor(lo, hi, v) == PyMin(hi, v)

\* max(lo, min(hi, v))
Clamp(lo, hi, v) == PyMax(lo, PyMin(hi, v))

\* a variant whose frame rate is the idle estimate
SafeDefault_IdleFps == Sample(45, 55, 25, 50, 35, 144)

\* the dict of the except branch
SafeDefault == Sample(45, 55, 25, 50, 35, 60)

----------------------------------------------------------------------------
(* The environment: what each source can answer *)

SeqsUpTo(S, n) == UNION { [1..k -> S] : k \in 0..n }

Sensor(t, n, v) == [SensorType |-> t, Name |-> n, Value |-> v]

name_CpuPackage == <<"C","P","U"," ","P","a","c","k","a","g","e">>
name_CpuTotal == <<"C","P","U"," ","T","o","t","a","l">>
name_GpuCore == <<"G","P","U"," ","C","o","r","e">>
name_FullscreenFps == <<"F","u","l","l","s","c","r","e","e","n"," ","F","P","S">>
name_coretemp == <<"c","o","r","e","t","e","m","p">>
name_acpitz == <<"a","c","p","i","t","z">>

QRaise == [k |-> "raise", sensors |-> <<>>]
QInterrupt == [k |-> "interrupt", sensors |-> <<>>]
QList(l) == [k |-> "list", sensors |-> l]

\* every answer of one namespace query whose sensors come from S
WmiQueries(S) == {QRaise, QInterrupt} \cup { QList(l) : l \in SeqsUpTo(S, MaxSensors) }

CpuSensors == { Sensor("Temperature", name_CpuPackage, Some(625)),
                Sensor("Temperature", name_CpuPackage, None),
                Sensor("Load", name_CpuTotal, Some(300)),
                Sensor("Temperature", name_GpuCore, Some(718)) }

GpuSensors == { Sensor("Temperature", name_GpuCore, Some(718)),
                Sensor("Load", name_GpuCore, None),
                Sensor("Load", name_GpuCore, Some(915)) }

FpsSensors == { Sensor("Factor", name_FullscreenFps, Some(1200)),
                Sensor("Factor", name_FullscreenFps, None),
                Sensor("Load", name_GpuCore, Some(915)) }

TAbsent == [k |-> "absent", groups |-> <<>>]
TRaise == [k |-> "raise", groups |-> <<>>]
TInterrupt == [k |-> "interrupt", groups |-> <<>>]
TableOf(g) == [k |-> "table", groups |-> g]

Currents == { Some(0), Some(455), Some(718) }
Groups == [name : {name_coretemp, name_acpitz}, entries : SeqsUpTo(Currents, MaxEntries)]
Tables == {TAbsent, TRaise, TInterrupt} \cup { TableOf(g) : g \in SeqsUpTo(Groups, MaxGroups) }

ZRaise == [k |-> "raise", zones |-> <<>>]
ZInterrupt == [k |-> "interrupt", zones |-> <<>>]
ZList(l) == [k |-> "list", zones |-> l]
Zones == {ZRaise, ZInterrupt, ZList(<<>>), ZList(<<3182>>), ZList(<<2700, 3182>>)}

LoadValue(p) == [k |-> "value", percent |-> p]
LoadRaise == [k |-> "raise", percent |-> 0]
LoadInterrupt == [k |-> "interrupt", percent |-> 0]
Loads == {LoadRaise, LoadInterrupt} \cup { LoadValue(p) : p \in {0, 125, 500, 1000} }

SmiRaise == [k |-> "raise", returncode |-> 0, stdout |-> "", number |-> 0]
SmiInterrupt == [k |-> "interrupt", returncode |-> 0, stdout |-> "", number |-> 0]
SmiFailed == [k |-> "done", returncode |-> 9, stdout |-> "", number |-> 0]
SmiText(t) == [k |-> "done", returncode |-> 0, stdout |-> t, number |-> 0]
SmiNumber(d) == [k |-> "done", returncode |-> 0, stdout |-> "number", number |-> d]
SmiFails == {SmiRaise, SmiInterrupt, SmiFailed} \cup { SmiText(t) : t \in {"", "[Not Supported]", "N/A"} }

CpuEnv(T, O, L, Z, P) == [table : T, ohm : O, lhm : L, zone : Z, load : P]
GpuEnv(S, O, L) == [smi : S, ohm : O, lhm : L]
FpsEnv(O, L, G) == [ohm : O, lhm : L, gpu : G]

----------------------------------------------------------------------------
(* The state after __init__ *)
Constructed ==
    /\ running = FALSE
    /\ serial_connection = NoConn
    /\ cpu_temp = 0 /\ gpu_temp = 0 /\ cpu_usage = 0
    /\ ram_usage = 0 /\ gpu_usage = 0 /\ fps = 60
    /\ stats = None
    /\ consecutive_errors = 0
    /\ res = None
    /\ wire = <<>>
    /\ openCalls = 0 /\ closeCalls = 0
    /\ failRun = 0 /\ resetFrom = 0
    /\ stopPath = "none"
    /\ signalled = FALSE
    /\ interrupts = 0
    /\ stopRequests = 0
    /\ unsent = 0

fieldVars == << cpu_temp, gpu_temp, cpu_usage, ram_usage, gpu_usage, fps >>
monitorVars == << running, serial_connection, fieldVars, stats, consecutive_errors >>
deviceVars == << wire, openCalls, closeCalls >>
historyVars == << failRun, resetFrom, stopPath, signalled, interrupts, stopRequests,
                 unsent >>

----------------------------------------------------------------------------
(* One call of one probe on a constructed monitor, in every environment of    *)
(* the sets below.                                                            *)

UsageRange == -5..105

ProbeCpuTempEnvs ==
    CpuEnv(Tables, {QRaise, QInterrupt, QList(<<>>)},
           {QRaise, QList(<<Sensor("Temperature", name_CpuPackage, Some(625))>>)},
           {ZRaise}, {LoadValue(500)})
    \cup CpuEnv({TAbsent, TableOf(<<>>)}, WmiQueries(CpuSensors), WmiQueries(CpuSensors),
                {ZRaise, ZList(<<3182>>)}, {LoadValue(125)})
    \cup CpuEnv({TAbsent, TRaise}, {QRaise}, {QRaise, QInterrupt}, Zones, Loads)

ProbeGpuEnvs ==
    GpuEnv(SmiFails \cup { SmiNumber(d) : d \in {-50, 0, 455, 1500} },
           WmiQueries(GpuSensors), WmiQueries(GpuSensors))

NoFpsSensor == {QRaise, QList(<<Sensor("Load", name_GpuCore, Some(915))>>)}

ProbeFpsEnvs ==
    FpsEnv(NoFpsSensor, NoFpsSensor,
           GpuEnv({ SmiNumber(10 * u) : u \in UsageRange }, {QRaise}, {QRaise}))
    \cup FpsEnv(WmiQueries(FpsSensors), WmiQueries(FpsSensors),
                GpuEnv({SmiRaise, SmiInterrupt, SmiNumber(915)},
                       {QRaise, QList(<<Sensor("Load", name_GpuCore, Some(715))>>)},
                       {QRaise}))

InitProbe ==
    /\ Constructed
    /\ pc = "probe"
    /\ arg \in ([metric : {"cpu_temp"}, env : ProbeCpuTempEnvs]
                 \cup [metric : {"gpu_temp", "gpu_usage"}, env : ProbeGpuEnvs]
                 \cup [metric : {"fps"}, env : ProbeFpsEnvs])

Probed(r) ==
    /\ res' = r
    /\ pc' = "probed"
    /\ UNCHANGED << arg, monitorVars, deviceVars, historyVars >>

ProbeCpuTemp ==
    /\ pc = "probe" /\ arg.metric = "cpu_temp"
    /\ Probed(get_cpu_temperature(arg.env))

ProbeGpuTemp ==
    /\ pc = "probe" /\ arg.metric = "gpu_temp"
    /\ Probed(get_gpu_temperature(arg.env))

ProbeGpuUsage ==
    /\ pc = "probe" /\ arg.metric = "gpu_usage"
    /\ Probed(get_gpu_usage(arg.env))

ProbeFps ==
    /\ pc = "probe" /\ arg.metric = "fps"
    /\ Probed(get_fps(arg.env))

NextProbe == ProbeCpuTemp \/ ProbeGpuTemp \/ ProbeGpuUsage \/ ProbeFps

SpecProbe == InitProbe /\ [][NextProbe]_vars

----------------------------------------------------------------------------
(* Properties of the probes (SpecProbe) *)

ProbedMetric(m) == pc = "probed" /\ arg.metric = m

\* neither namespace lists a sensor named as a frame-rate sensor
NoFrameRateSensor(e) ==
    \A q \in {e.ohm, e.lhm} :
        q.k = "list" => \A i \in 1..Len(q.sensors) : ~IsFps(q.sensors[i])

\* the GPU usage that the estimate of get_fps reads
UsageRead(e) == get_gpu_usage(e.gpu).val

FpsEstimated == ProbedMetric("fps") /\ NoFrameRateSensor(arg.env)

(* C7 as stated: without a frame-rate sensor, usage 90 gives fps 45, 91 gives   *)
(* 47, 70 gives 80, 50 gives 100 and 49 gives 144.                              *)
C7_ClaimedBoundaries ==
    FpsEstimated =>
        LET u == UsageRead(arg.env)
        IN  /\ (u = 90 => res.val = 45)
            /\ (u = 91 => res.val = 47)
            /\ (u = 70 => res.val = 80)
            /\ (u = 50 => res.val = 100)
            /\ (u = 49 => res.val = 144)

(* C7 amended: the thresholds are exclusive, so without a frame-rate sensor     *)
(* usage 90 gives fps 120, 91 gives 47, 70 gives 140, 50 gives 144 and 49       *)
(* gives 144.                                                                    *)
C7_Boundaries ==
    FpsEstimated =>
        LET u == UsageRead(arg.env)
        IN  /\ res.kind = "ret"
            /\ (u = 90 => res.val = 120)
            /\ (u = 91 => res.val = 47)
            /\ (u = 70 => res.val = 140)
            /\ (u = 50 => res.val = 144)
            /\ (u = 49 => res.val = 144)

C7_Witness == FpsEstimated /\ UsageRead(arg.env) = 90 /\ res.val = 120

(* C8: without a frame-rate sensor, for every integer GPU usage u in 0..100,    *)
(* get_fps returns 45 + 2(u-90) if u > 90, 80 + 2(u-70) if 70 < u <= 90,        *)
(* 100 + 2(u-50) if 50 < u <= 70, and 144 if u <= 50.                           *)
C8_PiecewiseEstimate ==
    FpsEstimated =>
        LET u == UsageRead(arg.env)
        IN  u \in 0..100 =>
              /\ res.kind = "ret"
              /\ (u > 90 => res.val = 45 + 2 * (u - 90))
              /\ (70 < u /\ u <= 90 => res.val = 80 + 2 * (u - 70))
              /\ (50 < u /\ u <= 70 => res.val = 100 + 2 * (u - 50))
              /\ (u <= 50 => res.val = 144)

C8_Witness == FpsEstimated /\ UsageRead(arg.env) = 71 /\ res.val = 82

\* the three methods of a probed metric, as attempts
\* (an interrupt is no failure of the method: failed is false for it)
Method1(m, e) ==
    IF m = "cpu_temp"
    THEN LET t == SensorsTemperatures(e.table)
         IN  [failed |-> t.k \in {"advance", "exc"}, ok |-> t.k = "value", val |-> t.val]
    ELSE LET a == NvidiaSmi(e.smi)
         IN  [failed |-> ~a.ok /\ e.smi.k # "interrupt", ok |-> a.ok, val |-> a.val]

Method2(m, e) == WmiFirst(e.ohm, m)
Method3(m, e) == WmiFirst(e.lhm, m)

(* C5: for CPU temperature, GPU temperature and GPU usage, when methods 1 and 2 *)
(* fail in any way and method 3 succeeds with value V, the probe returns V.      *)
C5_FallbackOrder ==
    \A m \in {"cpu_temp", "gpu_temp", "gpu_usage"} :
        ( /\ ProbedMetric(m)
          /\ Method1(m, arg.env).failed
          /\ ~Method2(m, arg.env).ok /\ arg.env.ohm.k # "interrupt"
          /\ Method3(m, arg.env).ok )
        => res.kind = "ret" /\ res.val = Method3(m, arg.env).val

(* C16: when every acquisition method for the CPU temperature fails, in         *)
(* whatever way, and the CPU load read answers an integer L in 0..100,          *)
(* get_cpu_temperature returns 35 + floor(4 * L / 10).                          *)
C16_AllFailGivesEstimate ==
    LET e == arg.env
        L == e.load.percent \div 10
    IN  ( /\ ProbedMetric("cpu_temp")
          /\ SensorsTemperatures(e.table).k \in {"advance", "exc"}
          /\ ~WmiFirst(e.ohm, "cpu_temp").ok
          /\ ~WmiFirst(e.lhm, "cpu_temp").ok
          /\ ~ThermalZone(e.zone).ok
          /\ e.load.k = "value" /\ e.load.percent = 10 * L /\ L \in 0..100 )
        => res.kind = "ret" /\ res.val = 35 + (4 * L) \div 10

----------------------------------------------------------------------------
(* One call of send_data_to_arduino, on a monitor with no connection, an open *)
(* one or a closed one, for valid Samples.                                     *)

FieldValues == {0, 45, 100}
FpsValues == {7, 60, 999}
DeviceAnswers == [write : {"ok", "raise", "interrupt"}, flush : {"ok", "raise", "interrupt"}]

ValidSample(d) ==
    /\ d.cpu_temp \in 0..100 /\ d.gpu_temp \in 0..100 /\ d.cpu_usage \in 0..100
    /\ d.ram_usage \in 0..100 /\ d.gpu_usage \in 0..100 /\ d.fps \in 0..999

InitSend ==
    /\ running = FALSE
    /\ serial_connection \in {NoConn, "open", "closed"}
    /\ cpu_temp = 0 /\ gpu_temp = 0 /\ cpu_usage = 0
    /\ ram_usage = 0 /\ gpu_usage = 0 /\ fps = 60
    /\ stats = None /\ consecutive_errors = 0 /\ res = None /\ wire = <<>>
    /\ openCalls = (IF serial_connection = NoConn THEN 0 ELSE 1)
    /\ closeCalls = (IF serial_connection = "closed" THEN 1 ELSE 0)
    /\ failRun = 0 /\ resetFrom = 0 /\ stopPath = "none"
    /\ signalled = FALSE /\ interrupts = 0 /\ stopRequests = 0 /\ unsent = 0
    /\ unsent = 0
    /\ pc = "send_call"
    /\ arg \in [data : { Sample(a, b, c, d, e, f) :
                            a \in FieldValues, b \in FieldValues, c \in FieldValues,
                            d \in FieldValues, e \in FieldValues, f \in FpsValues },
                 out : DeviceAnswers]

SendCall ==
    /\ pc = "send_call"
    /\ LET r == send_data_to_arduino(serial_connection, arg.data, arg.out)
       IN  /\ res' = r
           /\ wire' = r.line
    /\ pc' = "sent"
    /\ UNCHANGED << arg, monitorVars, openCalls, closeCalls, historyVars >>

NextSend == SendCall

SpecSend == InitSend /\ [][NextSend]_vars

----------------------------------------------------------------------------
(* get_system_stats, statement by statement.  Each step draws the answers of  *)
(* its sources from the set it is given.  arg summarises the call under way:   *)
(* allFailed (every method of every probe run so far found nothing), osFault   *)
(* (an OS read raised), load (the answer of cpu_percent to the CPU-temperature *)
(* fallback, when that ran) and usage (the GPU usage that the frame-rate       *)
(* estimate read, when that ran).                                              *)

CallSummary == [allFailed |-> TRUE, osFault |-> FALSE, load |-> LoadRaise, usage |-> None]

OsValue(p) == [k |-> "value", percent |-> p]
OsRaise == [k |-> "raise", percent |-> 0]

CpuMethodsFail(e) ==
    /\ SensorsTemperatures(e.table).k \in {"advance", "exc"}
    /\ ~WmiFirst(e.ohm, "cpu_temp").ok
    /\ ~WmiFirst(e.lhm, "cpu_temp").ok
    /\ ~ThermalZone(e.zone).ok

GpuMethodsFail(e, m) ==
    ~NvidiaSmi(e.smi).ok /\ ~WmiFirst(e.ohm, m).ok /\ ~WmiFirst(e.lhm, m).ok

FpsMethodsFail(e) ==
    ~WmiFirst(e.ohm, "fps").ok /\ ~WmiFirst(e.lhm, "fps").ok /\ GpuMethodsFail(e.gpu, "gpu_usage")

\* get_cpu_temperature falls through to the load-derived estimate
CpuFallbackUsed(e) ==
    /\ SensorsTemperatures(e.table).k = "advance"
    /\ ~WmiFirst(e.ohm, "cpu_temp").ok
    /\ ~WmiFirst(e.lhm, "cpu_temp").ok
    /\ ~ThermalZone(e.zone).ok

\* get_fps falls through to the estimate
FpsEstimateUsed(e) == ~WmiFirst(e.ohm, "fps").ok /\ ~WmiFirst(e.lhm, "fps").ok

\* a KeyboardInterrupt leaves get_system_stats and reaches start_monitoring's handler
\* n: the interrupts delivered in the step; kb: one of them unwinds
Delivered(n, kb) ==
    /\ interrupts + n <= MaxInterrupts
    /\ interrupts' = interrupts + n
    /\ signalled' = (signalled \/ n > 0)
    /\ stopPath' = (IF kb THEN "interrupt" ELSE stopPath)

Count(r) == r.swallowed + (IF r.kind = "kbint" THEN 1 ELSE 0)

\* a variant that charges a fault of an OS read to the error budget
StatsOs_CountsFault(Reads) ==
    /\ pc = "stats_os"
    /\ \E r \in Reads :
         IF r.cpu.k = "raise"
         THEN /\ stats' = Some(SafeDefault)
              /\ arg' = [CallSummary EXCEPT !.osFault = TRUE]
              /\ pc' = "send"
              /\ unsent' = unsent + 1
              /\ consecutive_errors' = consecutive_errors + 1
              /\ UNCHANGED fieldVars
         ELSE IF r.ram.k = "raise"
         THEN /\ cpu_usage' = PyInt(r.cpu.percent)
              /\ stats' = Some(SafeDefault)
              /\ arg' = [CallSummary EXCEPT !.osFault = TRUE]
              /\ pc' = "send"
              /\ unsent' = unsent + 1
              /\ consecutive_errors' = consecutive_errors + 1
              /\ UNCHANGED << cpu_temp, gpu_temp, ram_usage, gpu_usage, fps >>
         ELSE /\ cpu_usage' = PyInt(r.cpu.percent)
              /\ ram_usage' = PyInt(r.ram.percent)
              /\ arg' = CallSummary
              /\ pc' = "stats_cpu_temp"
              /\ UNCHANGED << cpu_temp, gpu_temp, gpu_usage, fps, stats, unsent,
                              consecutive_errors >>
    /\ UNCHANGED << running, serial_connection, res, deviceVars,
                    failRun, resetFrom, stopPath, signalled, interrupts, stopRequests >>

\* a variant whose except branch hands back the CPU usage that was already read
StatsOs_KeepsPartial(Reads) ==
    /\ pc = "stats_os"
    /\ \E r \in Reads :
         IF r.cpu.k = "raise"
         THEN /\ stats' = Some(SafeDefault)
              /\ arg' = [CallSummary EXCEPT !.osFault = TRUE]
              /\ pc' = "send"
              /\ unsent' = unsent + 1
              /\ UNCHANGED fieldVars
         ELSE IF r.ram.k = "raise"
         THEN /\ cpu_usage' = PyInt(r.cpu.percent)
              /\ stats' = Some([SafeDefault EXCEPT !.cpu_usage = Clamp(0, 100, cpu_usage')])
              /\ arg' = [CallSummary EXCEPT !.osFault = TRUE]
              /\ pc' = "send"
              /\ unsent' = unsent + 1
              /\ UNCHANGED << cpu_temp, gpu_temp, ram_usage, gpu_usage, fps >>
         ELSE /\ cpu_usage' = PyInt(r.cpu.percent)
              /\ ram_usage' = PyInt(r.ram.percent)
              /\ arg' = CallSummary
              /\ pc' = "stats_cpu_temp"
              /\ UNCHANGED << cpu_temp, gpu_temp, gpu_usage, fps, stats, unsent >>
    /\ UNCHANGED << running, serial_connection, consecutive_errors, res, deviceVars,
                    failRun, resetFrom, stopPath, signalled, interrupts, stopRequests >>

\* lines 248-249: the two OS reads; a raise goes to the except branch
StatsOs(Reads) ==
    /\ pc = "stats_os"
    /\ \E r \in Reads :
         IF r.cpu.k = "raise"
         THEN /\ stats' = Some(SafeDefault)
              /\ arg' = [CallSummary EXCEPT !.osFault = TRUE]
              /\ pc' = "send"
              /\ unsent' = unsent + 1
              /\ UNCHANGED fieldVars
         ELSE IF r.ram.k = "raise"
         THEN /\ cpu_usage' = PyInt(r.cpu.percent)
              /\ stats' = Some(SafeDefault)
              /\ arg' = [CallSummary EXCEPT !.osFault = TRUE]
              /\ pc' = "send"
              /\ unsent' = unsent + 1
              /\ UNCHANGED << cpu_temp, gpu_temp, ram_usage, gpu_usage, fps >>
         ELSE /\ cpu_usage' = PyInt(r.cpu.percent)
              /\ ram_usage' = PyInt(r.ram.percent)
              /\ arg' = CallSummary
              /\ pc' = "stats_cpu_temp"
              /\ UNCHANGED << cpu_temp, gpu_temp, gpu_usage, fps, stats, unsent >>
    /\ UNCHANGED << running, serial_connection, consecutive_errors, res, deviceVars,
                    failRun, resetFrom, stopPath, signalled, interrupts, stopRequests >>

\* line 252
StatsCpuTemp(Envs) ==
    /\ pc = "stats_cpu_temp"
    /\ \E e \in Envs :
         LET r == get_cpu_temperature(e)
         IN  /\ Delivered(Count(r), r.kind = "kbint")
             /\ cpu_temp' = (IF r.kind = "ret" THEN r.val ELSE cpu_temp)
             /\ pc' = (IF r.kind = "ret" THEN "stats_gpu_temp" ELSE "finally")
             /\ arg' = [arg EXCEPT !.allFailed = @ /\ CpuMethodsFail(e),
                                   !.load = IF CpuFallbackUsed(e) THEN e.load ELSE @]
    /\ UNCHANGED << running, serial_connection, gpu_temp, cpu_usage, ram_usage,
                    gpu_usage, fps, stats, consecutive_errors, res, deviceVars,
                    failRun, resetFrom, stopRequests, unsent >>

\* line 253
StatsGpuTemp(Envs) ==
    /\ pc = "stats_gpu_temp"
    /\ \E e \in Envs :
         LET r == get_gpu_temperature(e)
         IN  /\ Delivered(Count(r), FALSE)
             /\ gpu_temp' = r.val
             /\ arg' = [arg EXCEPT !.allFailed = @ /\ GpuMethodsFail(e, "gpu_temp")]
    /\ pc' = "stats_gpu_usage"
    /\ UNCHANGED << running, serial_connection, cpu_temp, cpu_usage, ram_usage,
                    gpu_usage, fps, stats, consecutive_errors, res, deviceVars,
                    failRun, resetFrom, stopRequests, unsent >>

\* line 254
StatsGpuUsage(Envs) ==
    /\ pc = "stats_gpu_usage"
    /\ \E e \in Envs :
         LET r == get_gpu_usage(e)
         IN  /\ Delivered(Count(r), FALSE)
             /\ gpu_usage' = r.val
             /\ arg' = [arg EXCEPT !.allFailed = @ /\ GpuMethodsFail(e, "gpu_usage")]
    /\ pc' = "stats_fps"
    /\ UNCHANGED << running, serial_connection, cpu_temp, gpu_temp, cpu_usage,
                    ram_usage, fps, stats, consecutive_errors, res, deviceVars,
                    failRun, resetFrom, stopRequests, unsent >>

\* line 255
StatsFps(Envs) ==
    /\ pc = "stats_fps"
    /\ \E e \in Envs :
         LET r == get_fps(e)
         IN  /\ Delivered(Count(r), FALSE)
             /\ fps' = r.val
             /\ arg' = [arg EXCEPT !.allFailed = @ /\ FpsMethodsFail(e),
                                   !.usage = IF FpsEstimateUsed(e)
                                             THEN Some(get_gpu_usage(e.gpu).val) ELSE None]
    /\ pc' = "stats_clamp"
    /\ UNCHANGED << running, serial_connection, cpu_temp, gpu_temp, cpu_usage,
                    ram_usage, gpu_usage, stats, consecutive_errors, res, deviceVars,
                    failRun, resetFrom, stopRequests, unsent >>

\* lines 258-272: clamp the six fields and return them
StatsReturn ==
    /\ pc = "stats_clamp"
    /\ cpu_temp' = Clamp(0, 100, cpu_temp)
    /\ gpu_temp' = Clamp(0, 100, gpu_temp)
    /\ cpu_usage' = Clamp(0, 100, cpu_usage)
    /\ ram_usage' = Clamp(0, 100, ram_usage)
    /\ gpu_usage' = Clamp(0, 100, gpu_usage)
    /\ fps' = Clamp(0, 999, fps)
    /\ stats' = Some(Sample(cpu_temp', gpu_temp', cpu_usage', ram_usage', gpu_usage', fps'))
    /\ unsent' = unsent + 1
    /\ pc' = "send"
    /\ UNCHANGED << running, serial_connection, consecutive_errors, arg, res, deviceVars,
                    failRun, resetFrom, stopPath, signalled, interrupts, stopRequests >>

----------------------------------------------------------------------------
(* One call of get_system_stats at the start of a tick, in environments whose *)
(* readings go below and above every range.                                    *)

CollectReads ==
    [cpu : {OsValue(-30), OsValue(125), OsValue(2500), OsRaise},
     ram : {OsValue(402), OsRaise}]

CollectCpuTempEnvs ==
    CpuEnv({TAbsent, TRaise, TInterrupt,
            TableOf(<<[name |-> name_coretemp, entries |-> <<Some(718)>>]>>)},
           {QRaise, QInterrupt,
            QList(<<Sensor("Temperature", name_CpuPackage, Some(-125))>>)},
           {QRaise},
           {ZRaise, ZList(<<4500>>)},
           {LoadRaise, LoadInterrupt, LoadValue(125), LoadValue(1000)})

CollectGpuTempEnvs ==
    GpuEnv({SmiRaise, SmiInterrupt, SmiNumber(-50), SmiNumber(1500)},
           {QRaise, QList(<<Sensor("Temperature", name_GpuCore, Some(718))>>)},
           {QRaise})

CollectGpuUsageEnvs ==
    GpuEnv({SmiRaise, SmiNumber(-50), SmiNumber(1500)},
           {QRaise, QList(<<Sensor("Load", name_GpuCore, Some(915))>>)},
           {QRaise})

CollectFpsEnvs ==
    FpsEnv({QRaise,
            QList(<<Sensor("Factor", name_FullscreenFps, Some(12000))>>),
            QList(<<Sensor("Factor", name_FullscreenFps, Some(-10))>>)},
           {QRaise},
           GpuEnv({SmiRaise, SmiNumber(915)}, {QRaise}, {QRaise}))

InitCollect ==
    /\ running = TRUE
    /\ serial_connection = "open"
    /\ cpu_temp = 0 /\ gpu_temp = 0 /\ cpu_usage = 0
    /\ ram_usage = 0 /\ gpu_usage = 0 /\ fps = 60
    /\ stats = None /\ consecutive_errors = 0 /\ res = None /\ wire = <<>>
    /\ openCalls = 1 /\ closeCalls = 0
    /\ failRun = 0 /\ resetFrom = 0 /\ stopPath = "none"
    /\ signalled = FALSE /\ interrupts = 0 /\ stopRequests = 0 /\ unsent = 0
    /\ unsent = 0
    /\ pc = "stats_os"
    /\ arg = CallSummary

NextCollect ==
    \/ StatsOs(CollectReads)
    \/ StatsCpuTemp(CollectCpuTempEnvs)
    \/ StatsGpuTemp(CollectGpuTempEnvs)
    \/ StatsGpuUsage(CollectGpuUsageEnvs)
    \/ StatsFps(CollectFpsEnvs)
    \/ StatsReturn

SpecCollect == InitCollect /\ [][NextCollect]_vars

----------------------------------------------------------------------------
(* start_monitoring and stop_monitoring *)

max_consecutive_errors == 5

\* a variant in which a successful send leaves the counter alone
NextErrors_NoReset(ok, n) == IF ok THEN n ELSE n + 1

\* lines 330-333: the counter after a send that returned ok
NextErrors(ok, n) == IF ok THEN 0 ELSE n + 1

\* line 334
BudgetExhausted(n) == n >= max_consecutive_errors

\* positions inside the try block of start_monitoring
StatsPcs == {"stats_os", "stats_cpu_temp", "stats_gpu_temp", "stats_gpu_usage",
             "stats_fps", "stats_clamp"}
LoopPcs == {"loop_top", "send", "sleep"} \cup StatsPcs

\* positions of start_monitoring before its try block
StartupPcs == {"connect", "init_wait", "banner"}

(* The body of stop_monitoring: the flag goes down and, when there is a        *)
(* connection object (open or already closed), its close() is called; an       *)
(* error of close() is discarded (closed = FALSE: the port stays as it was).   *)
stop_monitoring(closed) ==
    /\ running' = FALSE
    /\ IF serial_connection # NoConn
       THEN /\ closeCalls' = closeCalls + 1
            /\ serial_connection' = (IF closed THEN "closed" ELSE serial_connection)
       ELSE UNCHANGED << closeCalls, serial_connection >>

\* main() calls start_monitoring
StartMonitoring ==
    /\ pc = "idle"
    /\ pc' = "connect"
    /\ UNCHANGED << monitorVars, arg, res, deviceVars, historyVars >>

\* a variant that opens the device a second time after a successful open
ConnectOpen_Twice ==
    /\ pc = "connect"
    /\ \E opened \in BOOLEAN :
         IF opened
         THEN /\ serial_connection' = "open"
              /\ openCalls' = openCalls + 2
              /\ pc' = "init_wait"
              /\ UNCHANGED stopPath
         ELSE /\ pc' = "returned"
              /\ openCalls' = openCalls + 1
              /\ stopPath' = "open_failed"
              /\ UNCHANGED serial_connection
    /\ UNCHANGED << running, fieldVars, stats, consecutive_errors, arg, res, wire,
                    closeCalls, failRun, resetFrom, signalled, interrupts, stopRequests,
                    unsent >>

\* a variant that goes on to the loop when the open failed
ConnectOpen_IgnoresFailure ==
    /\ pc = "connect"
    /\ openCalls' = openCalls + 1
    /\ \E opened \in BOOLEAN :
         IF opened
         THEN /\ serial_connection' = "open"
              /\ pc' = "init_wait"
              /\ UNCHANGED stopPath
         ELSE /\ pc' = "banner"
              /\ stopPath' = "open_failed"
              /\ UNCHANGED serial_connection
    /\ UNCHANGED << running, fieldVars, stats, consecutive_errors, arg, res, wire,
                    closeCalls, failRun, resetFrom, signalled, interrupts, stopRequests,
                    unsent >>

\* connect_serial, line 55: serial.Serial(...) opens the device or raises
ConnectOpen ==
    /\ pc = "connect"
    /\ openCalls' = openCalls + 1
    /\ \E opened \in BOOLEAN :
         IF opened
         THEN /\ serial_connection' = "open"
              /\ pc' = "init_wait"
              /\ UNCHANGED stopPath
         ELSE /\ pc' = "returned"
              /\ stopPath' = "open_failed"
              /\ UNCHANGED serial_connection
    /\ UNCHANGED << running, fieldVars, stats, consecutive_errors, arg, res, wire,
                    closeCalls, failRun, resetFrom, signalled, interrupts, stopRequests,
                    unsent >>

(* connect_serial, lines 56-58 and 66-68: the wait and the message; a fault   *)
(* there is caught, connect_serial returns False and start_monitoring returns. *)
ConnectInitWait ==
    /\ pc = "init_wait"
    /\ \E fault \in BOOLEAN :
         IF fault
         THEN pc' = "returned" /\ stopPath' = "connect_fault"
         ELSE pc' = "banner" /\ UNCHANGED stopPath
    /\ UNCHANGED << monitorVars, arg, res, deviceVars, failRun, resetFrom,
                    signalled, interrupts, stopRequests, unsent >>

\* lines 305-316
Banner ==
    /\ pc = "banner"
    /\ running' = TRUE
    /\ consecutive_errors' = 0
    /\ pc' = "loop_top"
    /\ UNCHANGED << serial_connection, fieldVars, stats, arg, res, deviceVars, historyVars >>

\* line 319: while self.running
LoopTop ==
    /\ pc = "loop_top"
    /\ IF running
       THEN pc' = "stats_os" /\ UNCHANGED stopPath
       ELSE pc' = "finally" /\ stopPath' = "request"
    /\ UNCHANGED << monitorVars, arg, res, deviceVars, failRun, resetFrom,
                    signalled, interrupts, stopRequests, unsent >>

\* lines 330-336: the send of this tick's Sample and the error budget
LoopSend(Answers) ==
    /\ pc = "send"
    /\ \E out \in Answers :
         LET r == send_data_to_arduino(serial_connection, stats[1], out)
             n == NextErrors(r.val, consecutive_errors)
         IN  /\ res' = r
             /\ wire' = r.line
             /\ unsent' = unsent - 1
             /\ IF r.kind = "kbint"
                THEN /\ Delivered(1, TRUE)
                     /\ pc' = "finally"
                     /\ UNCHANGED << consecutive_errors, failRun, resetFrom >>
                ELSE /\ consecutive_errors' = n
                     /\ failRun' = (IF r.val THEN 0 ELSE failRun + 1)
                     /\ resetFrom' = (IF r.val THEN PyMax(resetFrom, consecutive_errors)
                                               ELSE resetFrom)
                     /\ IF ~r.val /\ BudgetExhausted(n)
                        THEN pc' = "finally" /\ stopPath' = "budget"
                        ELSE pc' = "sleep" /\ UNCHANGED stopPath
                     /\ UNCHANGED << signalled, interrupts >>
    /\ UNCHANGED << running, serial_connection, fieldVars, stats, arg,
                    openCalls, closeCalls, stopRequests >>

\* a variant that offers the Sample of the tick to send again after the sleep
Sleep_Resend ==
    /\ pc = "sleep"
    /\ pc' = "send"
    /\ UNCHANGED << monitorVars, arg, res, deviceVars, historyVars >>

\* line 338
Sleep ==
    /\ pc = "sleep"
    /\ pc' = "loop_top"
    /\ UNCHANGED << monitorVars, arg, res, deviceVars, historyVars >>

(* The operator's interrupt between two statements: inside the try block it   *)
(* reaches "except KeyboardInterrupt"; before the try block nothing catches    *)
(* it and start_monitoring unwinds.                                            *)
Interrupt ==
    /\ pc \in LoopPcs \cup StartupPcs
    /\ Delivered(1, TRUE)
    /\ pc' = (IF pc \in LoopPcs THEN "finally" ELSE "unwound")
    /\ UNCHANGED << monitorVars, arg, res, deviceVars, failRun, resetFrom, stopRequests,
                    unsent >>

(* An unexpected error of the status print (lines 324-327) or of the sleep    *)
(* reaches "except Exception"; one of the banner prints unwinds.               *)
Fault ==
    /\ pc \in {"banner", "send", "sleep"}
    /\ pc' = (IF pc = "banner" THEN "unwound" ELSE "finally")
    /\ stopPath' = "fault"
    /\ UNCHANGED << monitorVars, arg, res, deviceVars, failRun, resetFrom,
                    signalled, interrupts, stopRequests, unsent >>

\* line 345: finally: self.stop_monitoring()
Finally ==
    /\ pc = "finally"
    /\ \E closed \in BOOLEAN : stop_monitoring(closed)
    /\ pc' = "stopped"
    /\ UNCHANGED << fieldVars, stats, consecutive_errors, arg, res, wire, openCalls,
                    historyVars >>

\* a stop request: stop_monitoring() called from outside while the loop runs
StopRequest ==
    /\ pc \in LoopPcs
    /\ stopRequests < MaxStopRequests
    /\ stopRequests' = stopRequests + 1
    /\ \E closed \in BOOLEAN : stop_monitoring(closed)
    /\ UNCHANGED << pc, fieldVars, stats, consecutive_errors, arg, res, wire, openCalls,
                    failRun, resetFrom, stopPath, signalled, interrupts, unsent >>

LoopReads == [cpu : {OsValue(125), OsRaise}, ram : {OsValue(402)}]
LoopCpuTempEnvs ==
    CpuEnv({TAbsent, TInterrupt}, {QRaise, QInterrupt}, {QRaise}, {ZRaise}, {LoadValue(500)})
LoopGpuTempEnvs == GpuEnv({SmiRaise, SmiInterrupt, SmiNumber(718)}, {QRaise}, {QRaise})
LoopGpuUsageEnvs == GpuEnv({SmiRaise}, {QRaise}, {QRaise})
LoopFpsEnvs == FpsEnv({QRaise}, {QRaise}, GpuEnv({SmiRaise}, {QRaise}, {QRaise}))

Init == Constructed /\ pc = "idle" /\ arg = CallSummary

Next ==
    \/ StartMonitoring
    \/ ConnectOpen
    \/ ConnectInitWait
    \/ Banner
    \/ LoopTop
    \/ StatsOs(LoopReads)
    \/ StatsCpuTemp(LoopCpuTempEnvs)
    \/ StatsGpuTemp(LoopGpuTempEnvs)
    \/ StatsGpuUsage(LoopGpuUsageEnvs)
    \/ StatsFps(LoopFpsEnvs)
    \/ StatsReturn
    \/ LoopSend(DeviceAnswers)
    \/ Sleep
    \/ Interrupt
    \/ Fault
    \/ Finally
    \/ StopRequest

Spec == Init /\ [][Next]_vars

----------------------------------------------------------------------------
(* Properties of get_system_stats (SpecCollect) *)

SampleFields == {"cpu_temp", "gpu_temp", "cpu_usage", "ram_usage", "gpu_usage", "fps"}

Returned == pc = "send"

(* C3: every Sample that get_system_stats returns, whatever the OS reads and   *)
(* the probes answered and also on the fault path, has all six fields, with    *)
(* the temperatures and usages in 0..100 and fps in 0..999.                    *)
C3_SampleInRange ==
    /\ Returned => stats # None
    /\ stats # None => DOMAIN stats[1] = SampleFields /\ ValidSample(stats[1])

C3_Witness ==
    /\ Returned /\ ~arg.osFault
    /\ stats[1].gpu_temp = 0 /\ stats[1].cpu_usage = 100 /\ stats[1].fps = 999

(* C4 as stated: when every acquisition method of every metric fails, the      *)
(* returned Sample is exactly the safe default {45,55,25,50,35,60}.            *)
C4_AllFailGivesSafeDefault ==
    (Returned /\ arg.allFailed) => stats = Some(Sample(45, 55, 25, 50, 35, 60))

(* C4 amended: a fault of an OS read ends in the return of exactly the safe    *)
(* default {45,55,25,50,35,60}, never in an error for the caller; when instead *)
(* every acquisition method of every probed metric fails, the Sample holds the *)
(* probes' own fallbacks: gpu_temp 55, gpu_usage 35, fps 144, and cpu_temp     *)
(* 35 + floor(0.4 * load), or 45 when the sensor-table lookup or the load read *)
(* raised.                                                                     *)
C4_AllFailGivesFallbacks ==
    Returned =>
        /\ stats # None
        /\ arg.osFault => stats = Some(Sample(45, 55, 25, 50, 35, 60))
        /\ (arg.allFailed /\ ~arg.osFault) =>
              /\ stats[1].gpu_temp = 55
              /\ stats[1].gpu_usage = 35
              /\ stats[1].fps = 144
              /\ stats[1].cpu_temp = IF arg.load.k = "value"
                                     THEN 35 + (4 * arg.load.percent) \div 100
                                     ELSE 45

C4_Witness ==
    /\ Returned /\ arg.allFailed /\ ~arg.osFault /\ arg.load.k = "value"
    /\ stats[1].cpu_temp = 75 /\ stats[1].fps = 144

(* C11: when an OS read raises inside get_system_stats, before or after the   *)
(* CPU usage was obtained, the call returns to its caller (no error leaves it) *)
(* and the returned Sample is exactly {45,55,25,50,35,60}: no value collected   *)
(* in the call is in it.                                                       *)
C11_FaultGivesSafeDefault ==
    arg.osFault =>
        /\ Returned /\ stopPath = "none"
        /\ stats = Some(Sample(45, 55, 25, 50, 35, 60))

\* the RAM read raised after the CPU usage (12) had been stored in the monitor
C11_Witness ==
    /\ Returned /\ arg.osFault
    /\ cpu_usage = 12 /\ stats # None /\ stats[1].cpu_usage = 25

(* C19: in a Sample that get_system_stats assembled with no frame-rate sensor  *)
(* available (the estimate ran), fps is the piecewise estimate of that Sample's *)
(* own gpu_usage field, clamped to 0..999.                                      *)
C19_FpsFromSampleUsage ==
    (Returned /\ ~arg.osFault /\ arg.usage # None)
        => stats[1].fps = Clamp(0, 999, EstimateFps(stats[1].gpu_usage))

----------------------------------------------------------------------------
(* Properties of send_data_to_arduino (SpecSend) *)

\* the receiver's side: split on commas, read each part as int() does
RECURSIVE SplitOn(_, _)
SplitOn(line, sep) ==
    IF \E i \in 1..Len(line) : line[i] = sep
    THEN LET i == CHOOSE k \in 1..Len(line) :
                      line[k] = sep /\ \A j \in 1..(k - 1) : line[j] # sep
         IN  <<SubSeq(line, 1, i - 1)>> \o SplitOn(SubSeq(line, i + 1, Len(line)), sep)
    ELSE <<line>>

IsDigit(c) == \E d \in 1..10 : DigitChars[d] = c
DigitValue(c) == (CHOOSE d \in 1..10 : DigitChars[d] = c) - 1

RECURSIVE DigitsValue(_)
DigitsValue(t) ==
    IF t = <<>> THEN 0
    ELSE 10 * DigitsValue(SubSeq(t, 1, Len(t) - 1)) + DigitValue(t[Len(t)])

\* int(text): surrounding whitespace dropped; -1 stands for "not a number"
ParseInt(t) ==
    LET body == IF t # <<>> /\ t[Len(t)] = Newline THEN SubSeq(t, 1, Len(t) - 1) ELSE t
    IN  IF body # <<>> /\ \A i \in 1..Len(body) : IsDigit(body[i])
        THEN DigitsValue(body) ELSE -1

Decode(line) ==
    LET parts == SplitOn(line, Comma)
    IN  IF Len(parts) = 6
        THEN Some(Sample(ParseInt(parts[1]), ParseInt(parts[2]), ParseInt(parts[3]),
                         ParseInt(parts[4]), ParseInt(parts[5]), ParseInt(parts[6])))
        ELSE None

CountOf(c, line) == Cardinality({ i \in 1..Len(line) : line[i] = c })

(* C9: the line written for a valid Sample is its six fields in the order      *)
(* cpu_temp, gpu_temp, cpu_usage, ram_usage, gpu_usage, fps as decimal         *)
(* integers, separated by single commas, ended by one newline, nothing else;   *)
(* splitting it on commas and parsing the integers gives the Sample back.      *)
C9_RoundTrip ==
    (pc = "sent" /\ res.writes = 1 /\ ValidSample(arg.data)) =>
        /\ Decode(wire) = Some(arg.data)
        /\ CountOf(Comma, wire) = 5
        /\ CountOf(Newline, wire) = 1 /\ wire[Len(wire)] = Newline
        /\ \A i \in 1..Len(wire) : IsDigit(wire[i]) \/ wire[i] \in {Comma, Newline}

C9_Witness ==
    /\ pc = "sent" /\ res.kind = "ret" /\ res.val
    /\ arg.data = Sample(0, 45, 100, 45, 0, 999)
    /\ wire = <<"0", ",", "4", "5", ",", "1", "0", "0", ",", "4", "5", ",", "0", ",",
                "9", "9", "9", Newline>>

(* C10: a fault of the write or of the flush, and a missing connection, make   *)
(* send_data_to_arduino return False instead of raising; it returns True only  *)
(* when the write and the flush both completed; one call makes at most one     *)
(* write attempt and no open.                                                  *)
C10_SendReportsFaults ==
    pc = "sent" =>
        LET noConn == serial_connection = NoConn
            writeFault == serial_connection = "closed"
                          \/ (serial_connection = "open" /\ arg.out.write = "raise")
            flushFault == serial_connection = "open" /\ arg.out.write = "ok"
                          /\ arg.out.flush = "raise"
            completed == serial_connection = "open" /\ arg.out.write = "ok"
                         /\ arg.out.flush = "ok"
        IN  /\ (noConn \/ writeFault \/ flushFault) => (res.kind = "ret" /\ ~res.val)
            /\ (res.kind = "ret" /\ res.val) => (completed /\ res.flushes = 1)
            /\ res.writes <= 1
            /\ noConn => res.writes = 0
            /\ openCalls = (IF noConn THEN 0 ELSE 1)

C10_Witness ==
    /\ pc = "sent" /\ serial_connection = "open"
    /\ arg.out.write = "ok" /\ arg.out.flush = "raise"
    /\ res.kind = "ret" /\ ~res.val /\ res.writes = 1

----------------------------------------------------------------------------
(* Properties of the monitoring loop (Spec) *)

(* C1: the loop stops for budget exhaustion exactly when the 5th send failure  *)
(* in a row occurs and never earlier; a successful send resets the counter, so *)
(* the run of failures is counted afresh; nothing is collected or sent after   *)
(* the stop.                                                                   *)
C1_BudgetStop ==
    /\ pc \in LoopPcs => (consecutive_errors = failRun /\ failRun < 5)
    /\ stopPath = "budget" => (failRun = 5 /\ pc \in {"finally", "stopped"})
    /\ failRun >= 5 => stopPath = "budget"

C1_Witness == pc = "stopped" /\ stopPath = "budget" /\ resetFrom = 4

(* C12: when the open of the serial connection fails (serial.Serial raises, or *)
(* connect_serial returns False after a fault of its wait), start_monitoring   *)
(* returns at once: one open attempt, the loop never runs, no Sample is         *)
(* collected and no send is attempted.                                          *)
C12_OpenFailureEndsRun ==
    stopPath \in {"open_failed", "connect_fault"} =>
        /\ pc = "returned"
        /\ openCalls = 1
        /\ ~running
        /\ stats = None /\ arg = CallSummary
        /\ res = None /\ wire = <<>>

C12_Witness ==
    pc = "returned" /\ stopPath = "open_failed" /\ serial_connection = NoConn /\ openCalls = 1

(* C2: every run that reaches Stopped has called close on the connection       *)
(* exactly once, whichever path led there.                                     *)
C2_ClosedExactlyOnce == pc = "stopped" => closeCalls = 1

(* C13: once the connection has been closed, a further stop_monitoring does    *)
(* not invoke the connection's close again.                                     *)
C13_CloseNotInvokedAgain ==
    [][serial_connection = "closed" => closeCalls' = closeCalls]_vars

(* C14: in the running loop a tick is one collect followed by one send attempt *)
(* of the Sample of that collect, before the sleep: at most one collected       *)
(* Sample is ever waiting, a send attempt happens only with the Sample of this  *)
(* tick waiting and hands exactly its line to the device, the sleep and the     *)
(* next collect start only when nothing waits, also after failed sends.         *)
C14_OneCollectOneSend ==
    /\ [](/\ unsent \in {0, 1}
          /\ pc = "send" => (unsent = 1 /\ stats # None)
          /\ pc \in {"loop_top", "sleep"} \cup StatsPcs => unsent = 0)
    /\ [][/\ unsent' > unsent => (pc \in StatsPcs /\ pc' = "send" /\ stats' # None)
          /\ unsent' < unsent =>
                /\ pc = "send" /\ pc' \in {"sleep", "finally"}
                /\ stats' = stats
                /\ res'.writes \in {0, 1}
                /\ res'.writes = 1 => wire' = FormatLine(stats[1])
          /\ pc' = "sleep" => (pc \in {"send", "sleep"} /\ unsent' = 0)]_vars

\* a tick whose send succeeded after an earlier tick's send had failed
C14_Witness ==
    /\ pc = "sleep" /\ unsent = 0
    /\ resetFrom >= 1 /\ failRun = 0
    /\ res # None /\ res.val /\ wire = FormatLine(stats[1])

(* C15: the connection is created at most once per run: there is never more    *)
(* than one open attempt, the loop runs on the connection opened at startup,    *)
(* and no step of the loop, whatever the sends returned, opens the device       *)
(* again or puts another connection in its place.                               *)
C15_OpenedOnce ==
    /\ [](/\ openCalls <= 1
          /\ pc \in LoopPcs => (openCalls = 1 /\ serial_connection # NoConn))
    /\ [][(pc \in LoopPcs \cup {"finally"}) =>
            (openCalls' = openCalls /\ serial_connection' \in {serial_connection, "closed"})]_vars

\* four sends in a row have failed and the loop still holds the startup connection
C15_Witness ==
    pc = "sleep" /\ failRun = 4 /\ openCalls = 1 /\ serial_connection = "open"

(* C17: a collection fault neither touches the error budget nor stops the     *)
(* loop: the step in which get_system_stats falls back to the safe default      *)
(* leaves the counter, the running flag and the stop reason as they were and    *)
(* goes on to the send of that Sample; the counter changes only in a send step, *)
(* to 0 when the send succeeded and by +1 when it failed.                       *)
C17_FaultLeavesBudget ==
    /\ []((pc = "send" /\ arg.osFault) => (stats = Some(SafeDefault) /\ unsent = 1))
    /\ [][/\ (unsent' > unsent /\ arg'.osFault) =>
                /\ pc' = "send"
                /\ consecutive_errors' = consecutive_errors
                /\ running' = running /\ stopPath' = stopPath
          /\ consecutive_errors' # consecutive_errors =>
                /\ pc = "send" /\ unsent' < unsent /\ res'.kind = "ret"
                /\ consecutive_errors' = (IF res'.val THEN 0 ELSE consecutive_errors + 1)
          /\ (unsent' < unsent /\ arg.osFault /\ res'.writes = 1) =>
                wire' = FormatLine(Sample(45, 55, 25, 50, 35, 60))]_vars

\* the safe default of a faulted collect was sent, and its success reset the counter
C17_Witness ==
    /\ pc = "sleep" /\ arg.osFault /\ stats = Some(SafeDefault)
    /\ res # None /\ res.val /\ wire = FormatLine(SafeDefault)
    /\ consecutive_errors = 0 /\ resetFrom >= 1

(* C18: when start_monitoring has returned or unwound, a connection that was   *)
(* opened has had its close called, also when the interrupt or a fault came     *)
(* during connect_serial's wait after the open.                                 *)
C18_OpenedIsClosed ==
    (pc \in {"returned", "unwound", "stopped"} /\ serial_connection # NoConn)
        => closeCalls >= 1

(* C6: after an operator interrupt delivered while the loop runs, including    *)
(* inside a sensor probe, no further tick starts its collect.                  *)
C6_NoCollectAfterSignal ==
    [][signalled => ~(pc = "loop_top" /\ pc' = "stats_os")]_vars

====
